---- MODULE Spec2Model ----
(***************************************************************************)
(* GenericMongooseCrudService (src/src/service.ts) over one mongoose model *)
(* whose schema is timestampedSchemaDefinition plus {value, subs: [sub]},  *)
(* the schema of the repository's test suite.  The collection, the clock   *)
(* and the event emitter are the state; every public method is an action.  *)
(***************************************************************************)
EXTENDS Integers, Sequences, FiniteSets, TLC

\* ------------------------------------------------------------------ bounds
NumIds == 2          \* distinct top-level ObjectIds in play
NumParents == 1      \* documents the subdocument specification creates
MaxTime == 2         \* the clock stops advancing here
MaxSubs == 2         \* longest subs array of a parent

Ids == 1..NumIds
ParentIds == 1..NumParents
Values == {"A", "B"}
Msgs == 1..2                  \* msg values, ordered
Users == {"u1"}
Forms == {"oid", "str"}       \* an id handed over as ObjectId or as string

\* ------------------------------------------------------ program constants
Undefined == "undefined"      \* a key the caller's object does not carry
NoId == 0                     \* no _id
NoTime == 0                   \* a Date path never set
NoMsg == 0                    \* no msg
NoUser == "none"              \* an Object path never set
eventsCreate == "CREATED"
eventsDelete == "DELETED"
eventsPatch == "PATCH"
DuplicateKeyCode == 11000
OK == "ok"
DocumentNotFoundException == "DocumentNotFoundException"
DuplicateKeyException == "DuplicateKeyException"
MongoError == "MongoError"

getDefaultLimit == 2147483647
getDeletedDefaultFilter == "$ne:true"

VARIABLES
    store,        \* the collection: id -> stored document (present or not)
    clock,        \* what new Date() returns
    uniqueValue,  \* whether the schema declares a unique index on value
    emitted,      \* the notifications the last operation emitted, in order
    res,          \* the last operation: its name, arguments and outcome
    softDeleted,  \* ids on which softDelete succeeded, not hard-deleted since
    tx,           \* the withTransaction call in progress, and its session
    dbRead,       \* the read of the db accessor in progress
    calls         \* the calls in flight between two of their store calls

vars == <<store, clock, uniqueValue, emitted, res, softDeleted, tx, dbRead, calls>>

now == clock

\* ------------------------------------------------------------- documents
\* Schema defaults of a sub-element: deleted false, every other path unset.
NoSub ==
    [_id |-> NoId, msg |-> NoMsg, deleted |-> FALSE, createdAt |-> NoTime,
     createdBy |-> NoUser, deletedAt |-> NoTime, deletedBy |-> NoUser]

\* Schema defaults of a top-level document; present = FALSE is "not stored".
NoDoc ==
    [present |-> FALSE, value |-> "", deleted |-> FALSE,
     createdAt |-> NoTime, createdBy |-> NoUser,
     updatedAt |-> NoTime, updatedBy |-> NoUser,
     deletedAt |-> NoTime, deletedBy |-> NoUser, subs |-> <<>>]

SchemaPaths ==
    {"value", "deleted", "createdAt", "createdBy", "updatedAt", "updatedBy",
     "deletedAt", "deletedBy", "subs"}

SubSchemaPaths ==
    {"_id", "msg", "deleted", "createdAt", "createdBy", "deletedAt", "deletedBy"}

\* Object.assign(target, source): the source's keys win.
ObjectAssign(target, source) == source @@ target

\* A filter over top-level documents; Undefined / NoId mark an absent key.
\* subs_id is the dotted key 'subs._id'.
NoFilter ==
    [_id |-> NoId, value |-> Undefined, deleted |-> Undefined, subs_id |-> NoId]

ById(id) == [NoFilter EXCEPT !._id = id]

\* A filter over sub-elements.
NoSubFilter == [_id |-> NoId, msg |-> NoMsg, deleted |-> Undefined]

\* JavaScript truthiness of a filter's deleted value.
Truthy(v) == v \notin {Undefined, "false", "null"}

\* The store's match of one condition on the deleted path.
MatchDeleted(cond, d) ==
    CASE cond = "$ne:true" -> d # TRUE
      [] cond = "true" -> d = TRUE
      [] cond = "false" -> d = FALSE
      [] cond = "null" -> FALSE     \* the schema stores a Boolean in every document
      [] OTHER -> TRUE

HasSub(doc, sid) == \E k \in 1..Len(doc.subs) : doc.subs[k]._id = sid

\* The store's match of a whole filter against the document stored under i.
Matches(s, i, cond) ==
    /\ s[i].present
    /\ cond._id = NoId \/ cond._id = i
    /\ cond.value = Undefined \/ cond.value = s[i].value
    /\ MatchDeleted(cond.deleted, s[i].deleted)
    /\ cond.subs_id = NoId \/ HasSub(s[i], cond.subs_id)

\* The documents a find / countDocuments selects.
Find(s, cond) == {i \in Ids : Matches(s, i, cond)}

\* A set of ids as the sequence sorted by {_id: 1}.
RECURSIVE SortedIds(_)
SortedIds(S) ==
    IF S = {} THEN <<>>
    ELSE LET m == CHOOSE x \in S : \A y \in S : x <= y
         IN <<m>> \o SortedIds(S \ {m})

\* skip, then limit (limit 0: none given).
Window(seq, skip, limit) ==
    LET from == skip + 1
        to == IF limit = 0 \/ skip + limit > Len(seq) THEN Len(seq) ELSE skip + limit
    IN SubSeq(seq, from, to)

\* left: the caller's filter object as the call leaves it.
MkRes(op, filter, err) ==
    [op |-> op, filter |-> filter, err |-> err, ids |-> <<>>, n |-> 0,
     code |-> 0, form |-> "oid", sub |-> NoSub, subs |-> <<>>,
     subFilter |-> NoSubFilter, skip |-> 0, limit |-> 0, sort |-> "_id",
     seen |-> NoDoc, left |-> filter]

\* No withTransaction call yet: no session, `let result` unassigned.
NoTx ==
    [pc |-> "idle", session |-> "none", attempts |-> 0,
     fn |-> [op |-> "none", id |-> NoId, abort |-> FALSE],
     ran |-> "no", inTransaction |-> FALSE, value |-> NoId, result |-> NoId,
     yielded |-> NoId, transient |-> FALSE, snapshot |-> [i \in Ids |-> NoDoc]]

\* No read of the db accessor yet.
NoDbRead == [pc |-> "idle", depth |-> 0]

\* A caller that has no call in flight.
NoCall ==
    [pc |-> "idle", op |-> "none", parentId |-> NoId, sub |-> NoSub,
     payload |-> <<>>, instance |-> NoDoc, appended |-> NoSub,
     err |-> OK, ret |-> NoSub]

Callers == {"c1", "c2"}

Init ==
    /\ store = [i \in Ids |-> NoDoc]
    /\ clock = 1
    /\ uniqueValue = FALSE
    /\ emitted = <<>>
    /\ res = MkRes("init", NoFilter, OK)
    /\ softDeleted = {}
    /\ tx = NoTx
    /\ dbRead = NoDbRead
    /\ calls = [c \in Callers |-> NoCall]

\* ------------------------------------------------------------ store calls
getDefaultUpdate(user) == [updatedAt |-> now, updatedBy |-> user]

\* Keys of a $set document that name an update operator instead of a path.
OperatorKeys == {"$pull", "$push", "$set"}

\* The own keys of a filter object, as the object the code iterates.
Obj(f) ==
    LET absent(k) ==
            CASE k \in {"_id", "subs_id"} -> f[k] = NoId
              [] k = "msg" -> f[k] = NoMsg
              [] OTHER -> f[k] = Undefined
    IN [k \in {j \in DOMAIN f : ~absent(j)} |-> f[k]]

\* Every key written to the one path `field`.
formatQueryForAggregation_merged(input, field) ==
    [p \in {field : k \in DOMAIN input} |-> input[CHOOSE k \in DOMAIN input : TRUE]]

formatQueryForAggregation(input, field) ==
    LET path(k) == field \o "." \o k
    IN [p \in {path(k) : k \in DOMAIN input} |->
            input[CHOOSE k \in DOMAIN input : path(k) = p]]

\* The update's keys prefixed like a query's, without the positional '$'.
formatUpdateForSubdocuments_noPositional(input, field) ==
    LET path(k) == field \o "." \o k
    IN [p \in {path(k) : k \in DOMAIN input} |->
            input[CHOOSE k \in DOMAIN input : path(k) = p]]

formatUpdateForSubdocuments(input, field) ==
    LET path(k) == field \o ".$." \o k
    IN [p \in {path(k) : k \in DOMAIN input} |->
            input[CHOOSE k \in DOMAIN input : path(k) = p]]

\* Position of the first element of subs whose _id is sid (0: none).
FirstSub(subs, sid) ==
    IF \E k \in 1..Len(subs) : subs[k]._id = sid
    THEN CHOOSE k \in 1..Len(subs) :
            /\ subs[k]._id = sid
            /\ \A j \in 1..(k - 1) : subs[j]._id # sid
    ELSE 0

\* The ObjectId generated for a pushed element.
FreshSubId(subs) == 1 + Len(subs)

\* The schema's cast of pushed data to a sub-element: unknown keys dropped,
\* _id generated unless given, defaults for what is missing.
CastSub(data, subs) ==
    [f \in SubSchemaPaths |->
        IF f \in DOMAIN data THEN data[f]
        ELSE IF f = "_id" THEN FreshSubId(subs)
        ELSE NoSub[f]]

\* $set on the matched document: schema paths are assigned, the positional
\* paths 'subs.$.k' assign to the first element the query's 'subs._id'
\* matched; any other key is not a path of the schema and is not stored.
ApplySet(doc, set, cond) ==
    LET pos == IF cond.subs_id = NoId THEN 0 ELSE FirstSub(doc.subs, cond.subs_id)
        path(k) == "subs" \o ".$." \o k
        elem(e) == [k \in DOMAIN e |-> IF path(k) \in DOMAIN set THEN set[path(k)] ELSE e[k]]
        top == [f \in DOMAIN doc |->
                  IF f \in SchemaPaths /\ f \in DOMAIN set THEN set[f] ELSE doc[f]]
    IN [top EXCEPT !.subs =
            [k \in 1..Len(top.subs) |-> IF k = pos THEN elem(top.subs[k]) ELSE top.subs[k]]]

\* findOneAndUpdate's write: $set, then $push onto subs or $pull of the
\* elements with the given _id from it.
ApplyUpdate(doc, upd, cond) ==
    LET afterSet == ApplySet(doc, upd["$set"], cond)
        keep(subs) == SelectSeq(subs, LAMBDA e : e._id # upd["$pull"])
    IN IF "$push" \in DOMAIN upd
       THEN [afterSet EXCEPT !.subs = Append(@, CastSub(upd["$push"], afterSet.subs))]
       ELSE IF "$pull" \in DOMAIN upd
       THEN [afterSet EXCEPT !.subs = keep(@)]
       ELSE afterSet

\* instance.save() and findOneAndUpdate().exec() hand back a promise; the
\* store's refusal rejects that promise, it is not thrown by the call.
StoreCall(rejected, code) ==
    [threw |-> FALSE, rejected |-> rejected, code |-> code]

\* try { return callback() } catch (error) {...}: the catch sees only what
\* callback() throws before returning; a returned promise that rejects later
\* passes through unchanged.
handleMongoError(callback) ==
    IF callback.threw
    THEN IF callback.code = DuplicateKeyCode THEN DuplicateKeyException ELSE MongoError
    ELSE IF callback.rejected THEN MongoError ELSE OK

\* ------------------------------------------------------------ operations
\* What one call did: its error, the document it returns, the store and
\* the notifications it leaves.
\* seen: the document a listener finds stored under the returned id when it
\* is notified.
Failed(err) ==
    [err |-> err, id |-> NoId, store |-> store, emitted |-> <<>>, sub |-> NoSub,
     seen |-> NoDoc]

\* The notifications handed to the listeners before the store call.
Done_emitFirst(id, s, ev) ==
    [err |-> OK, id |-> id, store |-> s, emitted |-> ev, sub |-> NoSub,
     seen |-> IF id \in Ids THEN store[id] ELSE NoDoc]

\* await the store call, then this.events.emit(...), then return.
Done(id, s, ev) ==
    [err |-> OK, id |-> id, store |-> s, emitted |-> ev, sub |-> NoSub,
     seen |-> IF id \in Ids THEN s[id] ELSE NoDoc]

IdSeq(id) == IF id = NoId THEN <<>> ELSE <<id>>

\* The unique index on value refuses a second document with the value.
Collides(value, id) ==
    uniqueValue /\ \E j \in Ids \ {id} : store[j].present /\ store[j].value = value

\* The id a new document gets, among ids.
FreshId(ids) ==
    CHOOSE i \in ids : ~store[i].present /\ \A j \in ids : ~store[j].present => i <= j

\* The document built with the data's keys written over the stamp.
NewDocument_dataWins(data, user) ==
    LET merged == ObjectAssign([createdAt |-> now, createdBy |-> user], data)
    IN [f \in DOMAIN NoDoc |->
          IF f = "present" THEN TRUE
          ELSE IF f \in DOMAIN merged THEN merged[f] ELSE NoDoc[f]]

\* new this.model({...data, createdAt: now, createdBy: user}): schema paths
\* of the merged object, schema defaults elsewhere.
NewDocument(data, user) ==
    LET merged == ObjectAssign(data, [createdAt |-> now, createdBy |-> user])
    IN [f \in DOMAIN NoDoc |->
          IF f = "present" THEN TRUE
          ELSE IF f \in DOMAIN merged THEN merged[f] ELSE NoDoc[f]]

create(data, user, ids) ==
    LET id == FreshId(ids)
        instance == NewDocument(data, user)
        dup == Collides(instance.value, id)
        saved == handleMongoError(StoreCall(dup, IF dup THEN DuplicateKeyCode ELSE 0))
    IN IF saved # OK
       THEN Failed(saved)
       ELSE Done(id, [store EXCEPT ![id] = instance], <<[channel |-> eventsCreate, id |-> id]>>)

\* The conditions without the default on deleted.
WithDeletedDefault_none(filter) == filter

\* Object.assign({deleted: default}, filter)
WithDeletedDefault(filter) ==
    [filter EXCEPT !.deleted = IF @ # Undefined THEN @ ELSE getDeletedDefaultFilter]

\* get: the outcomes findOne can give (any one matching document).
get(filter) ==
    LET conditions == WithDeletedDefault(filter)
        found == Find(store, conditions)
    IN IF found = {}
       THEN {Failed(DocumentNotFoundException)}
       ELSE {Done(t, store, <<>>) : t \in found}

getById(id) == get(ById(id))

\* list that hands the caller's filter to find as it is.
list_noDefault(filter, limit, skip) ==
    Window(SortedIds(Find(store, filter)), skip, limit)

list(filter, limit, skip) ==
    LET deleted == IF filter.deleted # Undefined THEN filter.deleted ELSE getDeletedDefaultFilter
        conditions == [filter EXCEPT !.deleted = deleted]
    IN Window(SortedIds(Find(store, conditions)), skip, limit)

\* filter.deleted = ...: the assignment is to the object the caller handed in.
FilterAfterList(filter) ==
    [filter EXCEPT !.deleted = IF @ # Undefined THEN @ ELSE getDeletedDefaultFilter]

FilterAfterCount(filter) ==
    [filter EXCEPT !.deleted = IF Truthy(@) THEN @ ELSE getDeletedDefaultFilter]

count(filter) ==
    LET deleted == IF Truthy(filter.deleted) THEN filter.deleted ELSE "$ne:true"
        conditions == [filter EXCEPT !.deleted = deleted]
    IN Cardinality(Find(store, conditions))

\* update: stamp $set (the caller's $set keys win over the stamp), default
\* the deleted condition, findOneAndUpdate, throw when nothing matched, else
\* emit and return the new document.  A $set that carries an operator key is
\* either refused by the store or stored without that key.
update(filter, upd, user) ==
    LET set == IF "$set" \in DOMAIN upd
               THEN ObjectAssign(getDefaultUpdate(user), upd["$set"])
               ELSE getDefaultUpdate(user)
        conditions == WithDeletedDefault(filter)
        found == Find(store, conditions)
        refused == DOMAIN set \cap OperatorKeys # {}
        final == ("$set" :> set) @@ upd
        new(t) == ApplyUpdate(store[t], final, conditions)
    IN (IF refused THEN {Failed(handleMongoError(StoreCall(TRUE, 0)))} ELSE {})
       \cup
       (IF found = {}
        THEN {Failed(DocumentNotFoundException)}
        ELSE {IF Collides(new(t).value, t)
              THEN Failed(handleMongoError(StoreCall(TRUE, DuplicateKeyCode)))
              ELSE Done(t, [store EXCEPT ![t] = new(t)], <<[channel |-> eventsPatch, id |-> t]>>) :
                 t \in found})

\* Promise.all([this.list(params), this.count(filter)]): list runs first and
\* writes its default into the filter object count then receives.
listAndCount(filter, limit, skip) ==
    LET deleted == IF filter.deleted # Undefined THEN filter.deleted ELSE getDeletedDefaultFilter
        shared == [filter EXCEPT !.deleted = deleted]
    IN [data |-> list(filter, limit, skip), count |-> count(shared)]

updateById(id, upd, user) == update(ById(id), upd, user)

patch(filter, payload, user) == update(filter, "$set" :> payload, user)

patchById(id, payload, user) == patch(ById(id), payload, user)

\* softDelete that does not record who deleted.
softDelete_noDeletedBy(id, user) ==
    patchById(id, [deleted |-> TRUE, deletedAt |-> now], user)

softDelete(id, user) ==
    patchById(id, [deleted |-> TRUE, deletedAt |-> now, deletedBy |-> user], user)

\* hardDelete that applies the soft-delete default to its query.
hardDelete_defaultFilter(id) ==
    LET hit == store[id].present /\ store[id].deleted # TRUE
    IN Done(IF hit THEN id ELSE NoId,
            IF hit THEN [store EXCEPT ![id] = NoDoc] ELSE store,
            <<[channel |-> eventsDelete, id |-> IF hit THEN id ELSE NoId]>>)

\* hardDelete that throws when nothing was removed.
hardDelete_throws(id) ==
    IF store[id].present
    THEN Done(id, [store EXCEPT ![id] = NoDoc], <<[channel |-> eventsDelete, id |-> id]>>)
    ELSE Failed(DocumentNotFoundException)

\* findByIdAndDelete(_id), emit, return: no condition on deleted, no throw.
hardDelete(id) ==
    Done(IF store[id].present THEN id ELSE NoId,
         [store EXCEPT ![id] = NoDoc],
         <<[channel |-> eventsDelete, id |-> IF store[id].present THEN id ELSE NoId]>>)

\* -------------------------------------------------- subdocument operations
\* An id argument: the id and the form the caller hands it over in.
Arg(id, form) == [id |-> id, form |-> form]

\* new ObjectId(x)
ObjectId(arg) == [arg EXCEPT !.form = "oid"]

\* Object.assign({deleted: default}, filter) on an element filter.
SubWithDeletedDefault(filter) ==
    [filter EXCEPT !.deleted = IF @ # Undefined THEN @ ELSE getDeletedDefaultFilter]

\* $elemMatch of one element.
ElemMatch(e, cond) ==
    /\ cond._id = NoId \/ e._id = cond._id
    /\ cond.msg = NoMsg \/ e.msg = cond.msg
    /\ MatchDeleted(cond.deleted, e.deleted)

\* findOne({_id, subs: {$elemMatch}}, 'subs.$'), then pop(): the first
\* matching element of the parent stored under that id.
getSubdocument(parentId, filter) ==
    LET conditions == SubWithDeletedDefault(filter)
        id == ObjectId(parentId).id
        subs == store[id].subs
        hits == {k \in 1..Len(subs) : ElemMatch(subs[k], conditions)}
    IN IF ~store[id].present \/ hits = {}
       THEN Failed(DocumentNotFoundException)
       ELSE [Done(id, store, <<>>) EXCEPT
                !.sub = subs[CHOOSE k \in hits : \A j \in hits : k <= j]]

getSubdocumentById(parentId, subdocumentId) ==
    getSubdocument(parentId, [NoSubFilter EXCEPT !._id = ObjectId(subdocumentId).id])

\* Aggregation stages.  Pipelines are not cast: an _id given as a string
\* equals no stored ObjectId.
MatchIdStage(arg) ==
    IF arg.form = "oid" /\ store[arg.id].present
    THEN <<[_id |-> arg.id, subs |-> store[arg.id].subs]>>
    ELSE <<>>

LimitStage(rows, n) == SubSeq(rows, 1, IF Len(rows) < n THEN Len(rows) ELSE n)

RECURSIVE UnwindStage(_)
UnwindStage(rows) ==
    IF rows = <<>> THEN <<>>
    ELSE [k \in 1..Len(Head(rows).subs) |-> [_id |-> Head(rows)._id, subs |-> Head(rows).subs[k]]]
         \o UnwindStage(Tail(rows))

\* $match on dotted paths 'subs.k' of the unwound rows.
PathMatch(row, transformed) ==
    \A p \in DOMAIN transformed :
        \E k \in SubSchemaPaths :
            /\ p = "subs" \o "." \o k
            /\ IF k = "deleted" THEN MatchDeleted(transformed[p], row.subs[k])
               ELSE row.subs[k] = transformed[p]

MatchStage(rows, transformed) == SelectSeq(rows, LAMBDA r : PathMatch(r, transformed))

\* $group by _id with $push: one row per parent, elements in arrival order.
GroupStage(rows) ==
    IF rows = <<>> THEN <<>>
    ELSE <<[_id |-> rows[1]._id, subs |-> [k \in 1..Len(rows) |-> rows[k].subs]]>>

\* $slice: [array, skip, limit]
Slice(arr, skip, limit) ==
    SubSeq(arr, skip + 1, IF skip + limit > Len(arr) THEN Len(arr) ELSE skip + limit)

\* $slice with skip and limit in each other's place.
ProjectSliceStage_swapped(rows, skip, limit) ==
    [k \in 1..Len(rows) |-> [rows[k] EXCEPT !.subs = Slice(@, limit, skip)]]

ProjectSliceStage(rows, skip, limit) ==
    [k \in 1..Len(rows) |-> [rows[k] EXCEPT !.subs = Slice(@, skip, limit)]]

ProjectSizeStage(rows) ==
    [k \in 1..Len(rows) |-> [_id |-> rows[k]._id, count |-> Len(rows[k].subs)]]

\* $sort orders the rows of the pipeline; after $limit 1 and $group there is
\* at most one row, whose array it leaves as it is.
RowKey(row, transformedSort) ==
    LET k == CHOOSE j \in SubSchemaPaths : ("subs" \o "." \o j) \in DOMAIN transformedSort
        vals == {row.subs[i][k] : i \in 1..Len(row.subs)}
    IN IF vals = {} THEN 0 ELSE CHOOSE v \in vals : \A w \in vals : v <= w

RECURSIVE SortStage(_, _)
SortStage(rows, transformedSort) ==
    IF Len(rows) <= 1 THEN rows
    ELSE LET m == CHOOSE k \in 1..Len(rows) :
                     \A j \in 1..Len(rows) :
                         RowKey(rows[k], transformedSort) <= RowKey(rows[j], transformedSort)
         IN <<rows[m]>>
            \o SortStage([k \in 1..(Len(rows) - 1) |-> IF k < m THEN rows[k] ELSE rows[k + 1]],
                         transformedSort)

\* The parent check without the condition on deleted.
ParentMatches_anyDeleted(parentId) ==
    Cardinality(Find(store, ById(parentId.id)))

\* countDocuments({_id: parentId, deleted: default}): a query, so cast.
ParentMatches(parentId) ==
    Cardinality(Find(store, [ById(parentId.id) EXCEPT !.deleted = getDeletedDefaultFilter]))

listSubdocuments(parentId, filter, limit, skip, sort) ==
    LET f == IF filter.deleted = Undefined
             THEN [filter EXCEPT !.deleted = getDeletedDefaultFilter]
             ELSE filter
        transformedSort == formatQueryForAggregation(sort, "subs")
        transformedFilter == formatQueryForAggregation(Obj(f), "subs")
        matches == ParentMatches(parentId)
        aggregation ==
            SortStage(
              ProjectSliceStage(
                GroupStage(MatchStage(UnwindStage(LimitStage(MatchIdStage(parentId), 1)),
                                      transformedFilter)),
                skip, limit),
              transformedSort)
    IN IF matches <= 0
       THEN [err |-> DocumentNotFoundException, subs |-> <<>>]
       ELSE [err |-> OK,
             subs |-> IF Len(aggregation) > 0 THEN aggregation[Len(aggregation)].subs ELSE <<>>]

countSubdocuments(parentId, filter) ==
    LET matches == ParentMatches(parentId)
        f == IF filter.deleted = Undefined
             THEN [filter EXCEPT !.deleted = getDeletedDefaultFilter]
             ELSE filter
        transformedFilter == formatQueryForAggregation(Obj(f), "subs")
        aggregation ==
            ProjectSizeStage(
              GroupStage(MatchStage(UnwindStage(LimitStage(MatchIdStage(ObjectId(parentId)), 1)),
                                    transformedFilter)))
    IN IF matches <= 0
       THEN [err |-> DocumentNotFoundException, n |-> 0]
       ELSE [err |-> OK,
             n |-> IF Len(aggregation) > 0 THEN aggregation[Len(aggregation)].count ELSE 0]

\* The first element of the returned array instead of the last.
LastSub_first(o) ==
    IF o.err = OK /\ Len(o.store[o.id].subs) > 0 THEN o.store[o.id].subs[1] ELSE NoSub

\* instance.subs.pop()
LastSub(o) ==
    IF o.err = OK /\ Len(o.store[o.id].subs) > 0
    THEN o.store[o.id].subs[Len(o.store[o.id].subs)]
    ELSE NoSub

\* addSubdocument that also announces the new element as created.
addSubdocument_emitsCreated(parentId, data, user) ==
    {[o EXCEPT !.sub = LastSub(o),
               !.emitted = IF o.err = OK
                           THEN @ \o <<[channel |-> eventsCreate, id |-> o.id]>>
                           ELSE @] :
        o \in updateById(ObjectId(parentId).id,
                         "$push" :> ObjectAssign(data, [createdAt |-> now, createdBy |-> user]),
                         user)}

\* const instance = await this.updateById({_id: parentId, update: {$push}})
addSubdocumentUpdate(parentId, data, user) ==
    updateById(ObjectId(parentId).id,
               "$push" :> ObjectAssign(data, [createdAt |-> now, createdBy |-> user]),
               user)

addSubdocument(parentId, data, user) ==
    {[o EXCEPT !.sub = LastSub(o)] : o \in addSubdocumentUpdate(parentId, data, user)}

\* addSubdocument's return taken from the parent as it is stored by then.
addSubdocumentReturn_reread(call) ==
    LastSub(Done(call.parentId, store, <<>>))

\* return instance.subs.pop(), instance being what updateById resolved to.
addSubdocumentReturn(call) ==
    LastSub(Done(call.parentId, [store EXCEPT ![call.parentId] = call.instance], <<>>))

\* document.subs.id(_id)
SubById(o, sid) ==
    IF o.err = OK /\ FirstSub(o.store[o.id].subs, sid) # 0
    THEN o.store[o.id].subs[FirstSub(o.store[o.id].subs, sid)]
    ELSE NoSub

\* Final conditions that reach the parent whatever its deleted flag.
finalConditions_anyParent(parentId, subdocument) ==
    [ById(ObjectId(parentId).id) EXCEPT !.subs_id = subdocument._id, !.deleted = "any"]

\* { _id: new ObjectId(parentId), 'subs._id': subdocument._id }
finalConditions(parentId, subdocument) ==
    [ById(ObjectId(parentId).id) EXCEPT !.subs_id = subdocument._id]

\* patchSubdocument after its lookup: patch with the final conditions, then
\* document.subs.id(subdocument._id).
patchSubdocumentUpdate(parentId, subdocument, payload, user) ==
    {[o EXCEPT !.sub = SubById(o, subdocument._id)] :
        o \in patch(finalConditions(parentId, subdocument),
                    formatUpdateForSubdocuments(payload, "subs"), user)}

patchSubdocument(parentId, filter, payload, user) ==
    LET subdocument == getSubdocument(parentId, filter)
    IN IF subdocument.err # OK
       THEN {subdocument}
       ELSE patchSubdocumentUpdate(parentId, subdocument.sub, payload, user)

patchSubdocumentById(parentId, subdocumentId, payload, user) ==
    patchSubdocument(parentId, [NoSubFilter EXCEPT !._id = ObjectId(subdocumentId).id],
                     payload, user)

softDeleteSubdocument(parentId, subdocumentId, user) ==
    patchSubdocumentById(parentId, subdocumentId,
                         [deleted |-> TRUE, deletedAt |-> now, deletedBy |-> user], user)

\* getSubdocument, then patchById with {$pull: {subs: {_id}}} as its update:
\* patch hands that object to update as the value of $set.
hardDeleteSubdocument(parentId, filter, user) ==
    LET subdocument == getSubdocument(parentId, filter)
    IN IF subdocument.err # OK
       THEN {subdocument}
       ELSE {[o EXCEPT !.sub = IF o.err = OK THEN subdocument.sub ELSE NoSub] :
                o \in patchById(parentId.id, "$pull" :> subdocument.sub._id, user)}

hardDeleteSubdocumentById(parentId, subdocumentId, user) ==
    hardDeleteSubdocument(parentId, [NoSubFilter EXCEPT !._id = subdocumentId.id], user)

\* ---------------------------------------------------------------- inputs
\* Filters of the reads.
ReadFilters ==
    {NoFilter,
     [NoFilter EXCEPT !.value = "A"],
     [NoFilter EXCEPT !.deleted = "true"],
     [NoFilter EXCEPT !.deleted = "false"],
     [NoFilter EXCEPT !.deleted = "null"]}

\* Filters of patch and update.
WriteFilters ==
    {[NoFilter EXCEPT !.value = "A"]}
    \cup {[ById(i) EXCEPT !.deleted = "true"] : i \in Ids}

\* Every filter the properties quantify over.
DocFilters ==
    {[_id |-> i, value |-> v, deleted |-> d, subs_id |-> NoId] :
        i \in Ids \cup {NoId}, v \in Values \cup {Undefined},
        d \in {Undefined, "true", "false", "null", "$ne:true"}}

\* Data of create: the fields alone, and data that names the audit fields.
CreateData ==
    {[value |-> "A"], [value |-> "B", createdAt |-> 1, createdBy |-> "u0"]}

PatchPayloads ==
    {[value |-> "B"], [deleted |-> FALSE], [updatedAt |-> 1, createdAt |-> 1]}

UpdateDocs == {<<>>, "$set" :> [updatedAt |-> 1]}

Paging == {<<0, 0>>, <<1, 1>>}      \* <<limit, skip>> of list

\* --------------------------------------------------------------- actions
\* One call: the store and the notifications it leaves, and its record.
Does(o, r) ==
    /\ store' = o.store
    /\ emitted' = o.emitted
    /\ res' = r
    /\ UNCHANGED <<clock, uniqueValue, tx, dbRead, calls>>

Rec(op, filter, o) ==
    [MkRes(op, filter, o.err) EXCEPT !.ids = IdSeq(o.id), !.seen = o.seen]

Tick ==
    /\ clock < MaxTime
    /\ clock' = clock + 1
    /\ emitted' = <<>>
    /\ res' = MkRes("tick", NoFilter, OK)
    /\ UNCHANGED <<store, uniqueValue, softDeleted, tx, dbRead, calls>>

Create ==
    \E d \in CreateData, u \in Users :
        /\ \E i \in Ids : ~store[i].present
        /\ LET o == create(d, u, Ids)
           IN Does(o, [Rec("create", NoFilter, o) EXCEPT
                          !.code = IF o.err = OK THEN 0 ELSE DuplicateKeyCode,
                          !.filter.value = d.value])
        /\ UNCHANGED softDeleted

Get ==
    \E f \in ReadFilters : \E o \in get(f) :
        Does(o, Rec("get", f, o)) /\ UNCHANGED softDeleted

GetById ==
    \E i \in Ids : \E o \in getById(i) :
        Does(o, Rec("getById", ById(i), o)) /\ UNCHANGED softDeleted

List ==
    \E f \in ReadFilters, pg \in Paging :
        /\ Does(Done(NoId, store, <<>>),
                [MkRes("list", f, OK) EXCEPT
                    !.ids = list(f, pg[1], pg[2]), !.limit = pg[1], !.skip = pg[2],
                    !.left = FilterAfterList(f)])
        /\ UNCHANGED softDeleted

Count ==
    \E f \in ReadFilters :
        /\ Does(Done(NoId, store, <<>>),
                [MkRes("count", f, OK) EXCEPT !.n = count(f), !.left = FilterAfterCount(f)])
        /\ UNCHANGED softDeleted

ListAndCount ==
    \E f \in ReadFilters, pg \in Paging :
        LET r == listAndCount(f, pg[1], pg[2])
        IN /\ Does(Done(NoId, store, <<>>),
                   [MkRes("listAndCount", f, OK) EXCEPT
                       !.ids = r.data, !.n = r.count, !.limit = pg[1], !.skip = pg[2],
                       !.left = FilterAfterCount(FilterAfterList(f))])
           /\ UNCHANGED softDeleted

Patch ==
    \E f \in WriteFilters, p \in PatchPayloads, u \in Users : \E o \in patch(f, p, u) :
        Does(o, Rec("patch", f, o)) /\ UNCHANGED softDeleted

PatchById ==
    \E i \in Ids, p \in PatchPayloads, u \in Users : \E o \in patchById(i, p, u) :
        Does(o, Rec("patchById", ById(i), o)) /\ UNCHANGED softDeleted

Update ==
    \E f \in WriteFilters, d \in UpdateDocs, u \in Users : \E o \in update(f, d, u) :
        Does(o, Rec("update", f, o)) /\ UNCHANGED softDeleted

UpdateById ==
    \E i \in Ids, d \in UpdateDocs, u \in Users : \E o \in updateById(i, d, u) :
        Does(o, Rec("updateById", ById(i), o)) /\ UNCHANGED softDeleted

SoftDelete ==
    \E i \in Ids, u \in Users : \E o \in softDelete(i, u) :
        /\ Does(o, Rec("softDelete", ById(i), o))
        /\ softDeleted' = IF o.err = OK THEN softDeleted \cup {o.id} ELSE softDeleted

HardDelete ==
    \E i \in Ids :
        /\ Does(hardDelete(i), Rec("hardDelete", ById(i), hardDelete(i)))
        /\ softDeleted' = softDeleted \ {i}

Next ==
    \/ Tick
    \/ Create
    \/ Get
    \/ GetById
    \/ List
    \/ Count
    \/ ListAndCount
    \/ Patch
    \/ PatchById
    \/ Update
    \/ UpdateById
    \/ SoftDelete
    \/ HardDelete

Spec == Init /\ [][Next]_vars

\* ------------------------------------------------- subdocument actions
SubIds == 1..MaxSubs

SubData == {[msg |-> m] : m \in Msgs}

SubFilters ==
    {NoSubFilter, [NoSubFilter EXCEPT !.msg = 2], [NoSubFilter EXCEPT !.deleted = "true"]}

SubPayloads == {[msg |-> 1], [deleted |-> FALSE]}

Sorts == {[msg |-> 1]}

SubPaging == {<<getDefaultLimit, 0>>, <<1, 0>>, <<1, 1>>}     \* <<limit, skip>>

SubRec(op, parentId, sf, o) ==
    [Rec(op, ById(parentId.id), o) EXCEPT !.form = parentId.form, !.subFilter = sf, !.sub = o.sub]

CreateParent ==
    \E u \in Users :
        /\ \E i \in ParentIds : ~store[i].present
        /\ LET o == create([value |-> "A"], u, ParentIds)
           IN Does(o, Rec("create", NoFilter, o))
        /\ UNCHANGED softDeleted

AddSubdocument ==
    \E i \in Ids, d \in SubData, u \in Users :
        /\ Len(store[i].subs) < MaxSubs
        /\ \E o \in addSubdocument(Arg(i, "oid"), d, u) :
              Does(o, SubRec("addSubdocument", Arg(i, "oid"), NoSubFilter, o))
        /\ UNCHANGED softDeleted

GetSubdocument ==
    \E i \in Ids, f \in SubFilters :
        /\ Does(getSubdocument(Arg(i, "oid"), f),
                SubRec("getSubdocument", Arg(i, "oid"), f, getSubdocument(Arg(i, "oid"), f)))
        /\ UNCHANGED softDeleted

GetSubdocumentById ==
    \E i \in Ids, form \in Forms, sid \in SubIds :
        LET o == getSubdocumentById(Arg(i, form), Arg(sid, form))
        IN /\ Does(o, SubRec("getSubdocumentById", Arg(i, form),
                             [NoSubFilter EXCEPT !._id = sid], o))
           /\ UNCHANGED softDeleted

ListSubdocuments ==
    \E i \in Ids, form \in Forms, pg \in SubPaging, sort \in Sorts :
        LET r == listSubdocuments(Arg(i, form), NoSubFilter, pg[1], pg[2], sort)
        IN /\ Does(Done(NoId, store, <<>>),
                   [MkRes("listSubdocuments", ById(i), r.err) EXCEPT
                       !.form = form, !.subs = r.subs, !.limit = pg[1], !.skip = pg[2],
                       !.sort = "msg"])
           /\ UNCHANGED softDeleted

CountSubdocuments ==
    \E i \in Ids, form \in Forms :
        LET r == countSubdocuments(Arg(i, form), NoSubFilter)
        IN /\ Does(Done(NoId, store, <<>>),
                   [MkRes("countSubdocuments", ById(i), r.err) EXCEPT !.form = form, !.n = r.n])
           /\ UNCHANGED softDeleted

PatchSubdocument ==
    \E i \in Ids, f \in SubFilters, p \in SubPayloads, u \in Users :
        \E o \in patchSubdocument(Arg(i, "oid"), f, p, u) :
            /\ Does(o, SubRec("patchSubdocument", Arg(i, "oid"), f, o))
            /\ UNCHANGED softDeleted

PatchSubdocumentById ==
    \E i \in Ids, sid \in SubIds, p \in SubPayloads, u \in Users :
        \E o \in patchSubdocumentById(Arg(i, "oid"), Arg(sid, "oid"), p, u) :
            /\ Does(o, SubRec("patchSubdocumentById", Arg(i, "oid"),
                              [NoSubFilter EXCEPT !._id = sid], o))
            /\ UNCHANGED softDeleted

SoftDeleteSubdocument ==
    \E i \in Ids, sid \in SubIds, u \in Users :
        \E o \in softDeleteSubdocument(Arg(i, "oid"), Arg(sid, "oid"), u) :
            /\ Does(o, SubRec("softDeleteSubdocument", Arg(i, "oid"),
                              [NoSubFilter EXCEPT !._id = sid], o))
            /\ UNCHANGED softDeleted

HardDeleteSubdocument ==
    \E i \in Ids, f \in SubFilters, u \in Users :
        \E o \in hardDeleteSubdocument(Arg(i, "oid"), f, u) :
            /\ Does(o, SubRec("hardDeleteSubdocument", Arg(i, "oid"), f, o))
            /\ UNCHANGED softDeleted

HardDeleteSubdocumentById ==
    \E i \in Ids, sid \in SubIds, u \in Users :
        \E o \in hardDeleteSubdocumentById(Arg(i, "oid"), Arg(sid, "oid"), u) :
            /\ Does(o, SubRec("hardDeleteSubdocumentById", Arg(i, "oid"),
                              [NoSubFilter EXCEPT !._id = sid], o))
            /\ UNCHANGED softDeleted

NextSub ==
    \/ Tick
    \/ CreateParent
    \/ SoftDelete
    \/ AddSubdocument
    \/ GetSubdocument
    \/ GetSubdocumentById
    \/ ListSubdocuments
    \/ CountSubdocuments
    \/ PatchSubdocument
    \/ PatchSubdocumentById
    \/ SoftDeleteSubdocument
    \/ HardDeleteSubdocument
    \/ HardDeleteSubdocumentById

SpecSub == Init /\ [][NextSub]_vars

InitUnique ==
    /\ store = [i \in Ids |-> NoDoc]
    /\ clock = 1
    /\ uniqueValue = TRUE
    /\ emitted = <<>>
    /\ res = MkRes("init", NoFilter, OK)
    /\ softDeleted = {}
    /\ tx = NoTx
    /\ dbRead = NoDbRead
    /\ calls = [c \in Callers |-> NoCall]

SpecUnique == InitUnique /\ [][Next]_vars

\* ------------------------------------------------------------ properties
Range(seq) == {seq[k] : k \in 1..Len(seq)}

UpdateFamily == {"patch", "patchById", "update", "updateById"}

\* The stored documents a filter without a deleted key is meant to reach.
Visible(s, f) ==
    {i \in Ids :
        /\ s[i].present
        /\ s[i].deleted # TRUE
        /\ f._id = NoId \/ f._id = i
        /\ f.value = Undefined \/ s[i].value = f.value}

\* C1: once softDelete(id) has succeeded, getById(id) fails with
\* DocumentNotFoundException and list({deleted: true}) includes id, in every
\* later state in which the document has not been hard-deleted.
C1_SoftDeletedStaysHidden ==
    \A i \in softDeleted :
        /\ \A o \in getById(i) : o.err = DocumentNotFoundException
        /\ i \in Range(list([NoFilter EXCEPT !.deleted = "true"], 0, 0))

\* C2: for every filter without a deleted key, list returns exactly the
\* stored documents that match it and are not deleted = true, each once, and
\* count returns their number.
C2_DefaultFilterHidesDeleted ==
    /\ \A f \in DocFilters :
          f.deleted = Undefined =>
             /\ Range(list(f, 0, 0)) = Visible(store, f)
             /\ Len(list(f, 0, 0)) = Cardinality(Visible(store, f))
             /\ count(f) = Cardinality(Visible(store, f))
    /\ (res.op = "list" /\ res.filter.deleted = Undefined /\ res.limit = 0 /\ res.skip = 0)
          => Range(res.ids) = Visible(store, res.filter)
    /\ (res.op = "count" /\ res.filter.deleted = Undefined)
          => res.n = Cardinality(Visible(store, res.filter))

\* C2 witness: list() returned one document while another, soft-deleted one
\* is stored.
C2_Witness ==
    /\ res.op = "list"
    /\ res.filter = NoFilter
    /\ res.limit = 0
    /\ Len(res.ids) = 1
    /\ \E i \in Ids : store[i].present /\ store[i].deleted /\ i \notin Range(res.ids)
    /\ store[res.ids[1]].deleted = FALSE

\* C3: a patch, patchById, update, updateById or softDelete whose filter has
\* no deleted key and reaches no stored, not soft-deleted document fails with
\* DocumentNotFoundException, changes no stored document and emits nothing.
C3_MissingTargetFails ==
    [][ (/\ res'.op \in UpdateFamily \cup {"softDelete"}
         /\ res'.filter.deleted = Undefined
         /\ Visible(store, res'.filter) = {})
        => (/\ res'.err = DocumentNotFoundException
            /\ store' = store
            /\ emitted' = <<>>) ]_vars

\* C3 witness: a second softDelete, at a later time than the first, has
\* failed on a stored, soft-deleted document.
C3_Witness ==
    /\ res.op = "softDelete"
    /\ res.err = DocumentNotFoundException
    /\ store[res.filter._id].present
    /\ store[res.filter._id].deleted
    /\ res.filter._id \in softDeleted
    /\ store[res.filter._id].deletedAt < clock
    /\ emitted = <<>>

\* The elements of subs that are not soft-deleted, in array order.
Live(subs) == SelectSeq(subs, LAMBDA e : e.deleted # TRUE)

RECURSIVE SortNums(_)
SortNums(seq) ==
    IF seq = <<>> THEN <<>>
    ELSE LET m == CHOOSE k \in 1..Len(seq) : \A j \in 1..Len(seq) : seq[k] <= seq[j]
         IN <<seq[m]>> \o SortNums([k \in 1..(Len(seq) - 1) |-> IF k < m THEN seq[k] ELSE seq[k + 1]])

MsgsOf(subs) == [k \in 1..Len(subs) |-> subs[k].msg]

\* C4: hardDeleteSubdocument on a stored, not deleted parent with an element
\* matching the filter returns that element and leaves the parent's array
\* without it, the other elements unchanged.
C4_HardDeleteSubdocumentRemoves ==
    [][ (/\ res'.op \in {"hardDeleteSubdocument", "hardDeleteSubdocumentById"}
         /\ store[res'.filter._id].present
         /\ ~store[res'.filter._id].deleted
         /\ getSubdocument(Arg(res'.filter._id, "oid"), res'.subFilter).err = OK)
        => LET p == res'.filter._id
               target == getSubdocument(Arg(p, "oid"), res'.subFilter).sub
           IN /\ res'.err = OK
              /\ res'.sub = target
              /\ store'[p].subs = SelectSeq(store[p].subs, LAMBDA e : e._id # target._id)
              /\ Len(store'[p].subs) = Len(store[p].subs) - 1 ]_vars

\* C5: listSubdocuments with sort {msg: 1} returns the elements at positions
\* skip .. skip+limit-1 of the matching elements ordered by ascending msg,
\* whatever their order in the array.
C5_ListSubdocumentsSorted ==
    \A p \in Ids, skip \in 0..MaxSubs, limit \in 1..MaxSubs :
        (store[p].present /\ ~store[p].deleted) =>
            LET r == listSubdocuments(Arg(p, "oid"), NoSubFilter, limit, skip, [msg |-> 1])
            IN /\ r.err = OK
               /\ Range(r.subs) \subseteq Range(Live(store[p].subs))
               /\ MsgsOf(r.subs) = Slice(SortNums(MsgsOf(Live(store[p].subs))), skip, limit)

SubFiltersAll ==
    {[_id |-> i, msg |-> m, deleted |-> d] :
        i \in SubIds \cup {NoId}, m \in Msgs \cup {NoMsg}, d \in {Undefined, "true"}}

\* C7: for every parent id, as ObjectId or as string, and every element
\* filter, countSubdocuments and listSubdocuments (maximum limit, skip 0)
\* fail in the same cases and otherwise the count is the list's length.
C7_CountEqualsListLength ==
    \A p \in Ids, form \in Forms, f \in SubFiltersAll :
        LET c == countSubdocuments(Arg(p, form), f)
            l == listSubdocuments(Arg(p, form), f, getDefaultLimit, 0, [_id |-> 1])
        IN /\ c.err = l.err
           /\ c.err = OK => c.n = Len(l.subs)

\* C8: a create the store refuses for a unique index violation (code 11000)
\* fails with DuplicateKeyException and emits no created notification.
C8_DuplicateKeyRaised ==
    (res.op = "create" /\ res.code = DuplicateKeyCode)
        => (res.err = DuplicateKeyException /\ emitted = <<>>)

\* C9: a successful patch, patchById, update or updateById leaves the
\* document's updatedAt not smaller than before and its createdAt unchanged,
\* whatever the payload.
C9_UpdateKeepsAuditFields ==
    [][ (res'.op \in UpdateFamily /\ res'.err = OK)
        => LET t == res'.ids[1]
           IN /\ store'[t].updatedAt >= store[t].updatedAt
              /\ store'[t].createdAt = store[t].createdAt ]_vars

\* C10: every read on a stored parent that was soft-deleted has the outcome
\* it has on an id under which nothing is stored.
C10_SoftDeletedParentLikeMissing ==
    \A p \in softDeleted, q \in Ids :
        (store[p].present /\ ~store[q].present) =>
            /\ {o.err : o \in getById(p)} = {o.err : o \in getById(q)}
            /\ p \notin Range(list(NoFilter, 0, 0))
            /\ count(ById(p)) = count(ById(q))
            /\ \A f \in SubFiltersAll :
                  /\ listSubdocuments(Arg(p, "oid"), f, getDefaultLimit, 0, [_id |-> 1])
                       = listSubdocuments(Arg(q, "oid"), f, getDefaultLimit, 0, [_id |-> 1])
                  /\ countSubdocuments(Arg(p, "oid"), f) = countSubdocuments(Arg(q, "oid"), f)
                  /\ getSubdocument(Arg(p, "oid"), f).err = getSubdocument(Arg(q, "oid"), f).err
            /\ \A sid \in SubIds :
                  getSubdocumentById(Arg(p, "oid"), Arg(sid, "oid")).err
                     = getSubdocumentById(Arg(q, "oid"), Arg(sid, "oid")).err


ReadsAndUpdates == UpdateFamily \cup {"get", "getById", "softDelete"}

\* C11: no step of get, getById, patch, patchById, update, updateById or
\* softDelete, whatever its filter, returns a document that is stored with
\* deleted = true or changes such a document.
C11_SoftDeletedUntouched ==
    [][ res'.op \in ReadsAndUpdates
        => \A i \in Ids :
              (store[i].present /\ store[i].deleted = TRUE)
                 => (store'[i] = store[i] /\ i \notin Range(res'.ids)) ]_vars

\* C12: for every filter, with or without a deleted value, count(filter) is
\* the number of documents list(filter) returns without limit and skip, and
\* listAndCount returns that list and that number.
C12_CountEqualsList ==
    \A f \in DocFilters :
        /\ count(f) = Len(list(f, 0, 0))
        /\ listAndCount(f, 0, 0).data = list(f, 0, 0)
        /\ listAndCount(f, 0, 0).count = Len(list(f, 0, 0))


Stored(s) == {i \in Ids : s[i].present}

\* C13: a successful softDelete(id, user) sets deleted = true, deletedAt = now
\* and deletedBy = user on the document stored under id, leaves the set of
\* stored ids as it was and leaves every other document unchanged.
C13_SoftDeleteMarksOnlyTarget ==
    [][ (res'.op = "softDelete" /\ res'.err = OK)
        => LET id == res'.filter._id
           IN /\ res'.ids = <<id>>
              /\ store'[id].deleted = TRUE
              /\ store'[id].deletedAt = clock
              /\ store'[id].deletedBy \in Users
              /\ store'[id].value = store[id].value
              /\ store'[id].createdAt = store[id].createdAt
              /\ Stored(store') = Stored(store)
              /\ \A j \in Ids \ {id} : store'[j] = store[j] ]_vars

\* C13 witness: softDelete has just marked one of two stored documents, at
\* a time later than its creation.
C13_Witness ==
    /\ res.op = "softDelete"
    /\ res.err = OK
    /\ Stored(store) = Ids
    /\ store[res.filter._id].deleted
    /\ store[res.filter._id].deletedAt = clock
    /\ store[res.filter._id].createdAt < clock
    /\ store[res.filter._id].deletedBy = "u1"
    /\ \E j \in Ids : ~store[j].deleted

\* C14: a successful create adds exactly one document, stored under the
\* returned id, with createdAt = now and createdBy = the supplied user also
\* when the data names createdAt / createdBy, with deleted = false, and
\* leaves every existing document unchanged.
C14_CreateStampsAndAddsOne ==
    [][ (res'.op = "create" /\ res'.err = OK)
        => \E id \in Ids :
              /\ res'.ids = <<id>>
              /\ ~store[id].present
              /\ Stored(store') = Stored(store) \cup {id}
              /\ store'[id].value = res'.filter.value
              /\ store'[id].createdAt = clock
              /\ store'[id].createdBy \in Users
              /\ store'[id].deleted = FALSE
              /\ emitted' = <<[channel |-> eventsCreate, id |-> id]>>
              /\ \A j \in Ids \ {id} : store'[j] = store[j] ]_vars

\* C14 witness: create with the data {value: "B", createdAt: 1, createdBy:
\* "u0"} at time 2 has stored a second document stamped with time 2 and the
\* caller's user.
C14_Witness ==
    /\ res.op = "create"
    /\ res.err = OK
    /\ res.filter.value = "B"
    /\ clock = 2
    /\ Stored(store) = Ids
    /\ store[res.ids[1]].value = "B"
    /\ store[res.ids[1]].createdAt = 2
    /\ store[res.ids[1]].createdBy = "u1"

\* The reads C15 names, on the id i.
ReadsFail(i) ==
    /\ \A o \in getById(i) : o.err = DocumentNotFoundException
    /\ \A o \in get([ById(i) EXCEPT !.deleted = "true"]) : o.err = DocumentNotFoundException
    /\ i \notin Range(list([NoFilter EXCEPT !.deleted = "true"], 0, 0))

\* C15: right after hardDelete(id) nothing is stored under id, whether or not
\* the document was soft-deleted, and while nothing is stored under an id,
\* getById, get with deleted: true and list({deleted: true}) do not find it.
C15_HardDeleteRemoves ==
    /\ res.op = "hardDelete" => ~store[res.filter._id].present
    /\ \A i \in Ids : ~store[i].present => ReadsFail(i)

\* C15 witness: hardDelete has returned the document it removed, another
\* document is still stored.
C15_Witness ==
    /\ res.op = "hardDelete"
    /\ res.ids = <<res.filter._id>>
    /\ emitted = <<[channel |-> eventsDelete, id |-> res.filter._id]>>
    /\ ~store[res.filter._id].present
    /\ Stored(store) # {}

\* C16: hardDelete(id) with nothing stored under id raises no error, returns
\* the absent value, leaves the store unchanged and emits one deleted
\* notification that carries the absent value.
C16_HardDeleteMissing ==
    [][ (res'.op = "hardDelete" /\ ~store[res'.filter._id].present)
        => /\ res'.err = OK
           /\ res'.ids = <<>>
           /\ store' = store
           /\ emitted' = <<[channel |-> eventsDelete, id |-> NoId]>> ]_vars

\* C16 witness: hardDelete of an id under which nothing is stored has
\* returned the absent value while another document is stored.
C16_Witness ==
    /\ res.op = "hardDelete"
    /\ res.err = OK
    /\ res.ids = <<>>
    /\ emitted = <<[channel |-> eventsDelete, id |-> NoId]>>
    /\ Stored(store) # {}


\* A parent the soft-delete default lets through.
LiveParent(s, p) == s[p].present /\ s[p].deleted # TRUE

\* C17: addSubdocument on a stored, not deleted parent appends exactly one
\* element and returns it; getSubdocumentById with the returned id then
\* returns that element, whose createdBy is the user and whose createdAt is
\* set.  On a missing or soft-deleted parent it fails with
\* DocumentNotFoundException and the store is unchanged.
C17_AddSubdocumentAppends ==
    [][ \A p \in Ids :
        (res'.op = "addSubdocument" /\ res'.filter._id = p)
        =>    IF LiveParent(store, p)
              THEN /\ res'.err = OK
                   /\ Len(store'[p].subs) = Len(store[p].subs) + 1
                   /\ SubSeq(store'[p].subs, 1, Len(store[p].subs)) = store[p].subs
                   /\ res'.sub = store'[p].subs[Len(store'[p].subs)]
                   /\ res'.sub.createdBy \in Users
                   /\ res'.sub.createdAt = clock
                   /\ \E sid \in SubIds, form \in Forms :
                         /\ sid = res'.sub._id
                         /\ (getSubdocumentById(Arg(p, form), Arg(sid, form)))'.err = OK
                         /\ (getSubdocumentById(Arg(p, form), Arg(sid, form)))'.sub = res'.sub
              ELSE /\ res'.err = DocumentNotFoundException
                   /\ store' = store ]_vars

\* C17 witness: addSubdocument has returned the second element of a parent.
C17_Witness ==
    /\ res.op = "addSubdocument"
    /\ res.err = OK
    /\ Len(store[res.filter._id].subs) = 2
    /\ res.sub = store[res.filter._id].subs[2]
    /\ res.sub.createdBy = "u1"
    /\ res.sub._id # store[res.filter._id].subs[1]._id


C18Payloads ==
    {[msg |-> m] : m \in Msgs} \cup {[deleted |-> d] : d \in BOOLEAN}
        \cup {[msg |-> 1, deleted |-> FALSE]}

\* C18: a successful patchSubdocumentById changes, inside the array, only
\* the payload's fields of the element with the given id (siblings, length
\* and order are kept), sets the parent's updatedAt = now and updatedBy =
\* user, changes no other document, and returns the element as now stored.
C18_PatchSubdocumentOnlyTarget ==
    \A p \in Ids, sid \in SubIds, payload \in C18Payloads, u \in Users :
        \A o \in patchSubdocumentById(Arg(p, "oid"), Arg(sid, "oid"), payload, u) :
            o.err = OK =>
                LET old == store[p].subs
                    new == o.store[p].subs
                    pos == FirstSub(old, sid)
                IN /\ pos # 0
                   /\ Len(new) = Len(old)
                   /\ \A k \in 1..Len(old) : k # pos => new[k] = old[k]
                   /\ new[pos] = [f \in DOMAIN old[pos] |->
                                     IF f \in DOMAIN payload THEN payload[f] ELSE old[pos][f]]
                   /\ o.sub = new[pos]
                   /\ o.store[p].updatedAt = now
                   /\ o.store[p].updatedBy = u
                   /\ o.store[p].value = store[p].value
                   /\ o.store[p].deleted = store[p].deleted
                   /\ \A j \in Ids \ {p} : o.store[j] = store[j]

\* C18 witness: patchSubdocumentById has set msg of one of two elements, at
\* a time later than the parent's creation; the sibling has another msg.
C18_Witness ==
    /\ res.op = "patchSubdocumentById"
    /\ res.err = OK
    /\ Len(store[res.filter._id].subs) = 2
    /\ res.sub._id = res.subFilter._id
    /\ res.sub.msg = 1
    /\ \E k \in 1..2 :
          /\ store[res.filter._id].subs[k]._id # res.sub._id
          /\ store[res.filter._id].subs[k].msg = 2
    /\ store[res.filter._id].updatedAt = clock
    /\ store[res.filter._id].createdAt < clock

\* An element that softDeleteSubdocument has marked: the only call that
\* assigns an element's deletedAt.
WasSoftDeleted(e) == e.deletedAt # NoTime

\* C19: an element on which softDeleteSubdocument has succeeded stays in the
\* array with deleted = true, deletedAt and deletedBy set; getSubdocumentById,
\* patchSubdocumentById and softDeleteSubdocument on its id fail with
\* DocumentNotFoundException, and listSubdocuments / countSubdocuments
\* without a deleted filter leave it out.
C19_SoftDeletedElementStaysHidden ==
    \A p \in Ids :
        \A k \in 1..Len(store[p].subs) :
            LET e == store[p].subs[k]
                parent == Arg(p, "oid")
                sub == Arg(e._id, "oid")
            IN WasSoftDeleted(e) =>
                  /\ e.deleted = TRUE
                  /\ e.deletedBy # NoUser
                  /\ getSubdocumentById(parent, sub).err = DocumentNotFoundException
                  /\ \A u \in Users :
                        /\ \A o \in patchSubdocumentById(parent, sub, [msg |-> 1], u) :
                              o.err = DocumentNotFoundException
                        /\ \A o \in softDeleteSubdocument(parent, sub, u) :
                              o.err = DocumentNotFoundException
                  /\ e \notin Range(listSubdocuments(parent, NoSubFilter, getDefaultLimit, 0,
                                                     [_id |-> 1]).subs)
                  /\ countSubdocuments(parent, NoSubFilter).n < Len(store[p].subs)

\* C20: listSubdocuments and countSubdocuments fail with
\* DocumentNotFoundException when nothing is stored under the parent id or
\* the parent is soft-deleted; for a stored, not deleted parent none of whose
\* elements matches the filter they return the empty sequence and 0.
C20_SubdocumentListingErrors ==
    \A p \in Ids, form \in Forms, f \in SubFiltersAll :
        LET l == listSubdocuments(Arg(p, form), f, getDefaultLimit, 0, [_id |-> 1])
            c == countSubdocuments(Arg(p, form), f)
            subs == store[p].subs
        IN IF ~LiveParent(store, p)
           THEN /\ l.err = DocumentNotFoundException
                /\ c.err = DocumentNotFoundException
           ELSE (\A k \in 1..Len(subs) : ~ElemMatch(subs[k], SubWithDeletedDefault(f)))
                   => /\ l = [err |-> OK, subs |-> <<>>]
                      /\ c = [err |-> OK, n |-> 0]

\* C20 witness: countSubdocuments has returned 0 for a stored, not deleted
\* parent all of whose elements are soft-deleted.
C20_Witness ==
    /\ res.op = "countSubdocuments"
    /\ res.err = OK
    /\ res.n = 0
    /\ LiveParent(store, res.filter._id)
    /\ Len(store[res.filter._id].subs) > 0

\* ---------------------------------------------------------- transactions
\* How often session.withTransaction runs the callback at most: the driver
\* retries a transient failure while its time limit has not passed.
MaxAttempts == 2

\* The callbacks handed to withTransaction: one service call made with the
\* session, whose document id is the callback's value; abort: the callback
\* ends the transaction itself (session.abortTransaction()) before returning.
Callbacks ==
    {[op |-> "create", id |-> NoId, abort |-> b] : b \in BOOLEAN}
    \cup {[op |-> "patchById", id |-> i, abort |-> FALSE] : i \in Ids}

\* What the callback's service call can do.
CallbackOutcomes(fn) ==
    IF fn.op = "create"
    THEN IF \E i \in Ids : ~store[i].present
         THEN {create([value |-> "A"], "u1", Ids)}
         ELSE {Failed(MongoError)}
    ELSE patchById(fn.id, [value |-> "B"], "u1")

\* this.model.db.startSession(options): a session, or a rejection.
startSession(available) == IF available THEN "open" ELSE "none"

\* const session = await this.startSession(sessionOptions); let result
withTransactionBegin(fn, available) ==
    IF startSession(available) = "none"
    THEN [NoTx EXCEPT !.pc = "threw", !.fn = fn]
    ELSE [NoTx EXCEPT !.pc = "session", !.session = startSession(available), !.fn = fn]

\* session.withTransaction, one attempt: startTransaction, then the callback.
attemptTransaction(t, s) ==
    [t EXCEPT !.pc = "callback", !.session = "active", !.attempts = @ + 1,
              !.snapshot = s, !.transient = FALSE]

\* async _session => { result = await fn(_session); return result; }
\* o: what fn's service call did; te: the store failed it as transient.
callback(t, o, te) ==
    IF o.err = OK /\ ~te
    THEN [t EXCEPT !.pc = "fnDone", !.ran = "completed",
                   !.inTransaction = (t.session = "active"),
                   !.value = o.id, !.result = o.id,
                   !.session = IF t.fn.abort THEN "aborted" ELSE @]
    ELSE [t EXCEPT !.pc = "fnFailed", !.ran = "failed",
                   !.inTransaction = (t.session = "active"),
                   !.value = NoId, !.transient = te]

\* The driver after a failure: run the whole attempt again when the error
\* is transient and the time limit has not passed, else rethrow.
maybeRetryOrThrow(t) ==
    IF t.transient /\ t.attempts < MaxAttempts
    THEN [t EXCEPT !.pc = "session"]
    ELSE [t EXCEPT !.pc = "rejected"]

\* The driver after the callback resolved: nothing when the callback ended
\* the transaction itself, else commitTransaction.
attemptTransactionCommit(t, committed, te) ==
    IF t.session # "active" THEN [t EXCEPT !.pc = "settled"]
    ELSE IF committed THEN [t EXCEPT !.pc = "settled", !.session = "committed"]
    ELSE maybeRetryOrThrow([t EXCEPT !.session = "aborted", !.transient = te])

\* withTransaction that returns result whatever the session's outcome.
withTransactionEnd_swallow(t) ==
    [t EXCEPT !.pc = "returned", !.yielded = t.result]

\* await session.withTransaction(...) rethrows; else return result.
withTransactionEnd(t) ==
    IF t.pc = "rejected"
    THEN [t EXCEPT !.pc = "threw", !.yielded = NoId]
    ELSE [t EXCEPT !.pc = "returned", !.yielded = t.result]

WithTransaction ==
    /\ tx.pc \in {"idle", "returned", "threw"}
    /\ \E fn \in Callbacks, available \in BOOLEAN : tx' = withTransactionBegin(fn, available)
    /\ UNCHANGED <<store, clock, uniqueValue, emitted, res, softDeleted, dbRead, calls>>

StartTransaction ==
    /\ tx.pc = "session"
    /\ tx' = attemptTransaction(tx, store)
    /\ UNCHANGED <<store, clock, uniqueValue, emitted, res, softDeleted, dbRead, calls>>

RunCallback ==
    /\ tx.pc = "callback"
    /\ \E o \in CallbackOutcomes(tx.fn), te \in BOOLEAN :
          /\ tx' = callback(tx, o, te)
          /\ store' = IF o.err = OK /\ ~te /\ ~tx.fn.abort THEN o.store ELSE tx.snapshot
          /\ emitted' = IF te THEN <<>> ELSE o.emitted
    /\ UNCHANGED <<clock, uniqueValue, res, softDeleted, dbRead, calls>>

CommitTransaction ==
    /\ tx.pc = "fnDone"
    /\ \E committed \in BOOLEAN, te \in BOOLEAN :
          /\ tx' = attemptTransactionCommit(tx, committed, te)
          /\ store' = IF tx.session = "active" /\ ~committed THEN tx.snapshot ELSE store
    /\ UNCHANGED <<clock, uniqueValue, emitted, res, softDeleted, dbRead, calls>>

AbortTransaction ==
    /\ tx.pc = "fnFailed"
    /\ tx' = maybeRetryOrThrow([tx EXCEPT !.session = "aborted"])
    /\ store' = tx.snapshot
    /\ UNCHANGED <<clock, uniqueValue, emitted, res, softDeleted, dbRead, calls>>

WithTransactionEnd ==
    /\ tx.pc \in {"settled", "rejected"}
    /\ tx' = withTransactionEnd(tx)
    /\ UNCHANGED <<store, clock, uniqueValue, emitted, res, softDeleted, dbRead, calls>>

\* ------------------------------------------------------------ db accessor
\* The depth at which the engine's call stack is exhausted.
MaxStack == 3

\* get db(): Db { return this.db; } -- the getter's body reads the same
\* accessor: each read is one more frame, until the stack is exhausted.
db(r) ==
    IF r.depth < MaxStack
    THEN [pc |-> "reading", depth |-> r.depth + 1]
    ELSE [pc |-> "threw", depth |-> 0]

ReadDb ==
    /\ dbRead.pc \in {"idle", "threw", "returned"}
    /\ dbRead' = db(NoDbRead)
    /\ UNCHANGED <<store, clock, uniqueValue, emitted, res, softDeleted, tx, calls>>

ReadDbAgain ==
    /\ dbRead.pc = "reading"
    /\ dbRead' = db(dbRead)
    /\ UNCHANGED <<store, clock, uniqueValue, emitted, res, softDeleted, tx, calls>>

NextTx ==
    \/ Tick
    \/ WithTransaction
    \/ StartTransaction
    \/ RunCallback
    \/ CommitTransaction
    \/ AbortTransaction
    \/ WithTransactionEnd
    \/ ReadDb
    \/ ReadDbAgain

SpecTx == Init /\ [][NextTx]_vars

\* C21: a withTransaction call that has returned has run fn to completion
\* inside the session's transaction, the transaction is committed or
\* aborted, and the value returned is the value fn returned; a call that
\* ended after fn failed has thrown and returned nothing.
C21_WithTransactionCompletes ==
    /\ tx.pc = "returned" =>
          /\ tx.ran = "completed"
          /\ tx.inTransaction
          /\ tx.session \in {"committed", "aborted"}
          /\ tx.value # NoId
          /\ tx.yielded = tx.value
    /\ (tx.pc \in {"returned", "threw"} /\ tx.ran = "failed") =>
          tx.pc = "threw" /\ tx.yielded = NoId

\* A call has returned the id of the document its callback created on the
\* second attempt, after the commit of the first attempt was retried.
C21_Witness ==
    /\ tx.pc = "returned"
    /\ tx.attempts = MaxAttempts
    /\ tx.session = "committed"
    /\ store[tx.yielded].present

\* C24: a read of the db accessor that has ended has yielded the database
\* handle of the underlying collection.
C24_DbAccessorYieldsHandle ==
    dbRead.pc \in {"returned", "threw"} => dbRead.pc = "returned"

\* ------------------------------------------------------ format functions
\* The objects handed to the two format functions: every choice of own keys
\* among an element's _id, msg and deleted, with two values for each.
FormatInputs ==
    UNION {[K -> {1, 2}] : K \in SUBSET {"_id", "msg", "deleted"}}

FormatFields == {"subs", "items"}

InitFormat ==
    /\ store = [i \in Ids |-> NoDoc]
    /\ clock = 1
    /\ uniqueValue = FALSE
    /\ emitted = <<>>
    /\ \E input \in FormatInputs, field \in FormatFields :
          res = [op |-> "none", given |-> input, input |-> input, field |-> field,
                 result |-> <<>>]
    /\ softDeleted = {}
    /\ tx = NoTx
    /\ dbRead = NoDbRead
    /\ calls = [c \in Callers |-> NoCall]

\* The functions read input and assign only to their own result object.
FormatQueryForAggregation ==
    /\ res' = [res EXCEPT !.op = "formatQueryForAggregation",
                          !.result = formatQueryForAggregation(res.input, res.field)]
    /\ UNCHANGED <<store, clock, uniqueValue, emitted, softDeleted, tx, dbRead, calls>>

FormatUpdateForSubdocuments ==
    /\ res' = [res EXCEPT !.op = "formatUpdateForSubdocuments",
                          !.result = formatUpdateForSubdocuments(res.input, res.field)]
    /\ UNCHANGED <<store, clock, uniqueValue, emitted, softDeleted, tx, dbRead, calls>>

NextFormat ==
    \/ FormatQueryForAggregation
    \/ FormatUpdateForSubdocuments

SpecFormat == InitFormat /\ [][NextFormat]_vars

\* C23: the result of formatQueryForAggregation has exactly the keys 'F.k'
\* and the result of formatUpdateForSubdocuments exactly the keys 'F.$.k',
\* k an own key of input, as many keys as input has, each with input's
\* value for k; the input is as it was given.
C23_FormatKeysOneToOne ==
    res.op \in {"formatQueryForAggregation", "formatUpdateForSubdocuments"} =>
        LET sep == IF res.op = "formatQueryForAggregation" THEN "." ELSE ".$."
            path(k) == res.field \o sep \o k
        IN /\ DOMAIN res.result = {path(k) : k \in DOMAIN res.given}
           /\ Cardinality(DOMAIN res.result) = Cardinality(DOMAIN res.given)
           /\ \A k \in DOMAIN res.given : res.result[path(k)] = res.given[k]
           /\ res.input = res.given

\* formatUpdateForSubdocuments has formatted an input of three keys.
C23_Witness ==
    /\ res.op = "formatUpdateForSubdocuments"
    /\ Cardinality(DOMAIN res.given) = 3
    /\ res.result["subs.$.msg"] = 2

\* ---------------------------------------------------------- notifications
\* Every operation of the service, on one parent and one clock value.
NextEvents ==
    \/ CreateParent
    \/ Get
    \/ GetById
    \/ List
    \/ Count
    \/ ListAndCount
    \/ Patch
    \/ PatchById
    \/ Update
    \/ UpdateById
    \/ SoftDelete
    \/ HardDelete
    \/ AddSubdocument
    \/ GetSubdocument
    \/ GetSubdocumentById
    \/ ListSubdocuments
    \/ CountSubdocuments
    \/ PatchSubdocument
    \/ PatchSubdocumentById
    \/ SoftDeleteSubdocument
    \/ HardDeleteSubdocument
    \/ HardDeleteSubdocumentById

SpecEvents == Init /\ [][NextEvents]_vars

SubdocumentMutations ==
    {"addSubdocument", "patchSubdocument", "patchSubdocumentById",
     "softDeleteSubdocument", "hardDeleteSubdocument", "hardDeleteSubdocumentById"}

ReadOperations ==
    {"get", "getById", "list", "count", "listAndCount", "getSubdocument",
     "getSubdocumentById", "listSubdocuments", "countSubdocuments"}

\* C25: a subdocument mutation or softDelete that succeeds notifies once, on
\* the updated channel, with the whole parent document as stored, and one
\* that fails notifies nobody; a notification on the created channel comes
\* from create only, one on the deleted channel from hardDelete only, and a
\* read notifies on no channel.
C25_NotificationChannels ==
    /\ res.op \in SubdocumentMutations \cup {"softDelete"} =>
          IF res.err = OK
          THEN /\ emitted = <<[channel |-> eventsPatch, id |-> res.filter._id]>>
               /\ res.seen = store[res.filter._id]
               /\ res.seen.present
          ELSE emitted = <<>>
    /\ \A k \in 1..Len(emitted) :
          /\ emitted[k].channel = eventsCreate => res.op = "create"
          /\ emitted[k].channel = eventsDelete => res.op = "hardDelete"
          /\ emitted[k].channel \in {eventsCreate, eventsDelete, eventsPatch}
    /\ res.op \in ReadOperations => emitted = <<>>

\* softDeleteSubdocument has notified on the updated channel with a parent
\* that holds two elements.
C25_Witness ==
    /\ res.op = "softDeleteSubdocument"
    /\ res.err = OK
    /\ emitted = <<[channel |-> eventsPatch, id |-> 1]>>
    /\ Len(res.seen.subs) = 2
    /\ res.sub.deleted = TRUE

WriteOperations ==
    {"create", "update", "updateById", "patch", "patchById", "softDelete", "hardDelete"}

C29_CallerObjectsUntouched ==
    res.op \in {"list", "count", "listAndCount", "get", "getById", "patch",
                "patchById", "update", "updateById"} =>
        res.left = res.filter

\* ------------------------------------------------- the soft-delete fields
\* Payloads of patchById that name the soft-delete flag itself.
FlagPayloads == {[deleted |-> TRUE], [deleted |-> FALSE], [value |-> "B"]}

PatchFlags ==
    \E i \in Ids, p \in FlagPayloads, u \in Users : \E o \in patchById(i, p, u) :
        Does(o, Rec("patchById", ById(i), o)) /\ UNCHANGED softDeleted

NextFlags ==
    \/ Tick
    \/ Create
    \/ SoftDelete
    \/ HardDelete
    \/ PatchFlags

SpecFlags == Init /\ [][NextFlags]_vars

\* C30: every stored document and every element of its array whose deleted
\* field is true has deletedAt set.
C30_DeletedHasDeletedAt ==
    \A i \in Ids :
        store[i].present =>
            /\ store[i].deleted = TRUE => store[i].deletedAt # NoTime
            /\ \A k \in 1..Len(store[i].subs) :
                  store[i].subs[k].deleted = TRUE => store[i].subs[k].deletedAt # NoTime

\* -------------------------------------------------------- calls in flight
Ended(c, op, err, sub) ==
    [NoCall EXCEPT !.pc = "done", !.op = op.op, !.parentId = op.parentId,
                   !.sub = op.sub, !.payload = op.payload, !.instance = op.instance,
                   !.appended = op.appended, !.err = err, !.ret = sub]

\* addSubdocument up to its await: the findOneAndUpdate has pushed, the
\* promise has resolved to the new parent document.  A caller whose call
\* has ended makes its next call.
AddSubdocumentPush(c) ==
    /\ calls[c].pc \in {"idle", "done"}
    /\ \E p \in ParentIds, d \in SubData, u \in Users :
          /\ Len(store[p].subs) < MaxSubs
          /\ \E o \in addSubdocumentUpdate(Arg(p, "oid"), d, u) :
                LET call == [NoCall EXCEPT !.op = "addSubdocument", !.parentId = p]
                IN /\ store' = o.store
                   /\ emitted' = o.emitted
                   /\ calls' = [calls EXCEPT ![c] =
                         IF o.err # OK THEN Ended(c, call, o.err, NoSub)
                         ELSE [call EXCEPT
                                 !.pc = "pushed",
                                 !.instance = o.store[p],
                                 !.appended = o.store[p].subs[Len(store[p].subs) + 1]]]
    /\ UNCHANGED <<clock, uniqueValue, res, softDeleted, tx, dbRead>>

\* addSubdocument after its await.
AddSubdocumentReturn(c) ==
    /\ calls[c].pc = "pushed"
    /\ calls' = [calls EXCEPT ![c] = Ended(c, calls[c], OK, addSubdocumentReturn(calls[c]))]
    /\ UNCHANGED <<store, clock, uniqueValue, emitted, res, softDeleted, tx, dbRead>>

NextAdd ==
    \/ Tick
    \/ CreateParent
    \/ SoftDelete
    \/ \E c \in Callers : AddSubdocumentPush(c)
    \/ \E c \in Callers : AddSubdocumentReturn(c)

SpecAdd == Init /\ [][NextAdd]_vars

\* patchSubdocument up to the await of its lookup.
PatchSubdocumentLookup(c) ==
    /\ calls[c].pc \in {"idle", "done"}
    /\ \E p \in ParentIds, sid \in SubIds, payload \in SubPayloads :
          LET subdocument == getSubdocumentById(Arg(p, "oid"), Arg(sid, "oid"))
              call == [NoCall EXCEPT !.op = "patchSubdocument", !.parentId = p,
                                     !.payload = payload]
          IN calls' = [calls EXCEPT ![c] =
                IF subdocument.err # OK THEN Ended(c, call, subdocument.err, NoSub)
                ELSE [call EXCEPT !.pc = "looked", !.sub = subdocument.sub]]
    /\ UNCHANGED <<store, clock, uniqueValue, emitted, res, softDeleted, tx, dbRead>>

\* patchSubdocument from its patch call to its return.
PatchSubdocumentWrite(c) ==
    /\ calls[c].pc = "looked"
    /\ \E u \in Users :
       \E o \in patchSubdocumentUpdate(Arg(calls[c].parentId, "oid"), calls[c].sub,
                                       calls[c].payload, u) :
          /\ store' = o.store
          /\ emitted' = o.emitted
          /\ calls' = [calls EXCEPT ![c] = Ended(c, calls[c], o.err, o.sub)]
    /\ UNCHANGED <<clock, uniqueValue, res, softDeleted, tx, dbRead>>

\* ObjectIds are generated once: while a call in flight holds the id of a
\* parent or of an element, no new parent or element is given that id, and
\* no element is given the id of one that is in the array.
RaceCreateParent ==
    /\ \A c \in Callers : calls[c].pc = "looked" => store[calls[c].parentId].present
    /\ CreateParent

RaceAddSubdocument ==
    /\ \A i \in ParentIds :
          /\ ~HasSub(store[i], FreshSubId(store[i].subs))
          /\ \A c \in Callers :
                (calls[c].pc = "looked" /\ calls[c].parentId = i) =>
                    calls[c].sub._id # FreshSubId(store[i].subs)
    /\ AddSubdocument

\* update with {$pull: {subs: {_id}}} as its update document.
PullSubdocument ==
    \E p \in ParentIds, sid \in SubIds, u \in Users :
        \E o \in update(ById(p), "$pull" :> sid, u) :
            Does(o, Rec("update", ById(p), o)) /\ UNCHANGED softDeleted

\* One patchSubdocument call taken apart at its await, among the calls of
\* other callers, each of which takes effect at its one writing store call.
NextRace ==
    \/ RaceCreateParent
    \/ RaceAddSubdocument
    \/ PullSubdocument
    \/ SoftDeleteSubdocument
    \/ SoftDelete
    \/ HardDelete
    \/ PatchSubdocumentLookup("c1")
    \/ PatchSubdocumentWrite("c1")

SpecRace == Init /\ [][NextRace]_vars

\* The step in which the patchSubdocument call of c makes its patch call.
WriteStep(c) == calls[c].pc = "looked" /\ calls'[c].pc = "done"

\* The element of the parent of c's call that c looked up, as stored now.
Target(c) ==
    LET subs == store[calls[c].parentId].subs
    IN {subs[k] : k \in {j \in 1..Len(subs) : subs[j]._id = calls[c].sub._id}}

\* C22: when patchSubdocument makes its update after its lookup and by then
\* the element is no longer in the array, or the parent is hard-deleted or
\* soft-deleted, the call fails with DocumentNotFoundException and the store
\* is left as it was; and whatever happened in between, the update changes no
\* other document, adds or removes no element and changes no element other
\* than the one looked up.
C22_PatchSubdocumentRaceFails ==
    [][\A c \in Callers :
          WriteStep(c) =>
              LET p == calls[c].parentId
                  sid == calls[c].sub._id
              IN /\ (~store[p].present \/ store[p].deleted = TRUE \/ ~HasSub(store[p], sid)) =>
                        /\ calls'[c].err = DocumentNotFoundException
                        /\ store' = store
                 /\ \A i \in Ids \ {p} : store'[i] = store[i]
                 /\ store'[p].present = store[p].present
                 /\ Len(store'[p].subs) = Len(store[p].subs)
                 /\ \A k \in 1..Len(store[p].subs) :
                        store[p].subs[k]._id # sid => store'[p].subs[k] = store[p].subs[k]]_vars

\* A patchSubdocument call whose lookup found the element has failed with
\* DocumentNotFoundException: the parent is stored and live, and the element
\* has been pulled from its array, where another element remains.
C22_Witness ==
    /\ calls["c1"].pc = "done"
    /\ calls["c1"].op = "patchSubdocument"
    /\ calls["c1"].sub._id # NoId
    /\ calls["c1"].err = DocumentNotFoundException
    /\ store[calls["c1"].parentId].present
    /\ store[calls["c1"].parentId].deleted = FALSE
    /\ Len(store[calls["c1"].parentId].subs) = 1
    /\ Target("c1") = {}

\* C27: an addSubdocument call that has returned has returned the element
\* its own push appended; when the calls of all callers have returned, the
\* parent's array holds the element of each exactly once, and the elements
\* two callers appended to one parent are different elements.
C27_ConcurrentAddsKeepOwnElement ==
    LET ok(c) == calls[c].pc = "done" /\ calls[c].op = "addSubdocument" /\ calls[c].err = OK
    IN /\ \A c \in Callers : ok(c) => calls[c].ret = calls[c].appended
       /\ (\A c \in Callers : ok(c)) =>
             /\ \A c \in Callers :
                   LET subs == store[calls[c].parentId].subs
                   IN Cardinality({k \in 1..Len(subs) : subs[k] = calls[c].appended}) = 1
             /\ \A c, d \in Callers :
                   (c # d /\ calls[c].parentId = calls[d].parentId) =>
                       calls[c].appended._id # calls[d].appended._id

\* Two calls have pushed in turn, the later one has returned its own element
\* while the earlier one has not returned yet.
C27_Witness ==
    /\ calls["c1"].pc = "pushed"
    /\ calls["c1"].appended._id = 1
    /\ calls["c2"].pc = "done"
    /\ calls["c2"].err = OK
    /\ calls["c2"].ret._id = 2
    /\ Len(store[1].subs) = 2

\* C28: when patchSubdocument makes its update and the element it looked up
\* is by then marked deleted, the call fails with DocumentNotFoundException
\* and the element is left as it was.
C28_PatchSubdocumentSkipsSoftDeleted ==
    [][\A c \in Callers :
          (WriteStep(c) /\ \E e \in Target(c) : e.deleted = TRUE) =>
              /\ calls'[c].err = DocumentNotFoundException
              /\ store' = store]_vars

====
